---- MODULE Spec2Model ----
(***************************************************************************)
(* SimVerse water pollution control simulator (src/app.py).                *)
(*                                                                         *)
(* The session state of the Streamlit script and the commands that change  *)
(* it: the widget adjustments, "Next Day", "Reset Simulation" and "Start   *)
(* Simulation".  Every action is one user interaction together with the    *)
(* script run(s) it triggers.                                              *)
(*                                                                         *)
(* Spec is the session from its construction, with a bounded number of     *)
(* widget adjustments among a few settings.  SpecSet is the session with   *)
(* the widgets set once, to any of their values, and only the buttons      *)
(* pressed afterwards.                                                     *)
(*                                                                         *)
(* Numbers.  The program computes in Python floats (binary64, every        *)
(* operation rounded to 53 bits).  The model keeps finite precision too:   *)
(* a value v is the integer v * Unit, and every multiplication by a float  *)
(* literal n/d is rounded to the nearest unit, ties to even (Mul).         *)
(* Additions, subtractions and comparisons are exact.                      *)
(***************************************************************************)
EXTENDS Integers, Sequences, FiniteSets, TLC

VARIABLES
    day,               \* st.session_state.day
    pollution_level,   \* st.session_state.pollution_level
    dissolved_oxygen,  \* st.session_state.dissolved_oxygen
    aquatic_health,    \* st.session_state.aquatic_health
    history,           \* st.session_state.history: the four columns
    policies,          \* st.session_state.policies
    started,           \* st.session_state.started
    factory_val,       \* value of the "Industrial Discharge" slider
    farm_val,          \* value of the "Agricultural Runoff" slider
    health_impact,     \* local health_impact of the last run_simulation_step
    report,            \* grade shown by the last script run, "none" if no report
    changes            \* number of widget adjustments made so far

vars == <<day, pollution_level, dissolved_oxygen, aquatic_health, history,
          policies, started, factory_val, farm_val, health_impact, report,
          changes>>

sim == <<day, pollution_level, dissolved_oxygen, aquatic_health, history>>

---------------------------------------------------------------------------
(* Widgets explored *)

\* Widget adjustments explored in one session.
MaxChanges == 1

\* Range of the two sliders.
SliderMin == 0

SliderMax == 10

SliderVals == SliderMin..SliderMax

Setting(f, g, tp, reg, cd) ==
    [factory |-> f, farm |-> g,
     pol |-> [TreatmentPlant |-> tp, Regulation |-> reg, CleanupDrive |-> cd]]

\* Widget settings an adjustment may lead to: the defaults, both sliders at
\* their maximum with and without the two emission policies, and one
\* setting for each other combination of the three checkboxes.
Settings ==
    { Setting(5, 3, FALSE, FALSE, FALSE),
      Setting(10, 10, FALSE, FALSE, FALSE),
      Setting(10, 10, TRUE, TRUE, FALSE),
      Setting(0, 10, FALSE, FALSE, TRUE),
      Setting(0, 0, TRUE, TRUE, TRUE),
      Setting(5, 0, TRUE, FALSE, FALSE),
      Setting(0, 3, FALSE, TRUE, FALSE),
      Setting(10, 0, TRUE, FALSE, TRUE),
      Setting(0, 10, FALSE, TRUE, TRUE) }

---------------------------------------------------------------------------
(* Finite-precision arithmetic *)

\* Units per 1.0: six decimal digits.
Unit == 10^6

\* The float literal n/d.
F(n, d) == (n * Unit) \div d

\* x * (n/d), rounded to the nearest unit, ties to even; d > 0, n >= 0.
Mul(x, n, d) ==
    LET q == x \div d
        t == (x % d) * n
        fl == q * n + (t \div d)
        rem == t % d
    IN  IF 2 * rem > d THEN fl + 1
        ELSE IF 2 * rem = d /\ fl % 2 = 1 THEN fl + 1
        ELSE fl

Max(a, b) == IF a >= b THEN a ELSE b

Min(a, b) == IF a <= b THEN a ELSE b

\* np.clip(x, lo, hi)
Clip(x, lo, hi) == Min(Max(x, lo), hi)

RECURSIVE SumDiv(_, _, _)
SumDiv(s, n, i) == IF i > Len(s) THEN 0 ELSE (s[i] \div n) + SumDiv(s, n, i + 1)

RECURSIVE SumMod(_, _, _)
SumMod(s, n, i) == IF i > Len(s) THEN 0 ELSE (s[i] % n) + SumMod(s, n, i + 1)

\* np.mean(s): the sum of the entries over their number, rounded to the
\* nearest unit, ties to even (the sum itself is never formed: it is split
\* into quotients and remainders by n).
Mean(s) ==
    LET n == Len(s)
        r == SumMod(s, n, 1)
        fl == SumDiv(s, n, 1) + (r \div n)
        rem == r % n
    IN  IF 2 * rem > n THEN fl + 1
        ELSE IF 2 * rem = n /\ fl % 2 = 1 THEN fl + 1
        ELSE fl

---------------------------------------------------------------------------
(* Session state initialization, lines 45-61 *)

NoPolicies ==
    [TreatmentPlant |-> FALSE, Regulation |-> FALSE, CleanupDrive |-> FALSE]

PolicySets ==
    [TreatmentPlant : BOOLEAN, Regulation : BOOLEAN, CleanupDrive : BOOLEAN]

SeedPollution == F(10, 1)

SeedOxygen == F(8, 1)

SeedHealth == F(100, 1)

SeedHistory ==
    [Day |-> <<1>>, Pollution |-> <<SeedPollution>>,
     Oxygen |-> <<SeedOxygen>>, Health |-> <<SeedHealth>>]

\* Default positions of the two sliders.
DefaultFactory == 5

DefaultFarm == 3

---------------------------------------------------------------------------
(* Simulation engine: run_simulation_step, lines 64-117 *)

\* Lines 66-75 with the second policy test an elif: no stacking.
DailyPollution_Elif(f, g, pol) ==
    LET base == Mul(F(f, 1), 15, 10) + Mul(F(g, 1), 10, 10)
    IN  IF pol.TreatmentPlant THEN Mul(base, 3, 10)
        ELSE IF pol.Regulation THEN Mul(base, 6, 10)
        ELSE base

\* Lines 66-75: base pollution of the day and the two policy multipliers.
DailyPollution(f, g, pol) ==
    LET base == Mul(F(f, 1), 15, 10) + Mul(F(g, 1), 10, 10)
        treated == IF pol.TreatmentPlant THEN Mul(base, 3, 10) ELSE base
    IN  IF pol.Regulation THEN Mul(treated, 6, 10) ELSE treated

\* Lines 69, 77-79: natural_recovery * decay_booster.
Recovery(pol) ==
    LET natural_recovery == F(2, 1)
    IN  IF pol.CleanupDrive THEN Mul(natural_recovery, 25, 10)
        ELSE Mul(natural_recovery, 10, 10)

\* Line 82.
NetPollution(f, g, pol) == DailyPollution(f, g, pol) - Recovery(pol)

\* Line 83 without the floor at 0.
NewPollution_NoFloor(p, f, g, pol) == p + NetPollution(f, g, pol)

\* Line 83.
NewPollution(p, f, g, pol) == Max(0, p + NetPollution(f, g, pol))

\* Line 87 without the floor at 0.5.
TargetDO_NoFloor(p) == F(8, 1) - Mul(p, 15, 100)

\* Line 87.
TargetDO(p) == Max(F(5, 10), F(8, 1) - Mul(p, 15, 100))

\* Line 88 without the smoothing: the oxygen snaps to its target.
NewOxygen_Snap(do, p) == TargetDO(p)

\* Line 88.
NewOxygen(do, p) == do + Mul(TargetDO(p) - do, 4, 10)

\* Lines 95-96: the dissolved oxygen term of health_impact (0 if not applied).
OxygenPenalty(do) ==
    IF do < F(6, 1) THEN Mul(F(6, 1) - do, 25, 10) ELSE 0

\* Lines 99-100: the toxicity term of health_impact (0 if not applied).
ToxicityPenalty(p) ==
    IF p > F(20, 1) THEN Mul(p - F(20, 1), 5, 10) ELSE 0

\* Lines 103-108 with "or" for "and" in the test.
HealthRecovery_Or(do, p, pol) ==
    IF do > F(6, 1) \/ p < F(20, 1)
    THEN F(3, 1) + (IF pol.CleanupDrive THEN F(5, 1) ELSE 0)
    ELSE 0

\* Lines 103-108: the recovery term of health_impact (0 if not applied).
HealthRecovery(do, p, pol) ==
    IF do > F(6, 1) /\ p < F(20, 1)
    THEN F(3, 1) + (IF pol.CleanupDrive THEN F(5, 1) ELSE 0)
    ELSE 0

\* Lines 92-108.
HealthImpact(do, p, pol) ==
    0 - OxygenPenalty(do) - ToxicityPenalty(p) + HealthRecovery(do, p, pol)

\* Line 110 without the clip.
NewHealth_NoClip(h, impact) == h + impact

\* Line 110.
NewHealth(h, impact) == Clip(h + impact, 0, F(100, 1))

\* Lines 114-117 with the append to the Day column left out.
AppendHistory_NoDay(h, d, p, do, a) ==
    [Day |-> h.Day, Pollution |-> Append(h.Pollution, p),
     Oxygen |-> Append(h.Oxygen, do), Health |-> Append(h.Health, a)]

\* Lines 114-117.
AppendHistory(h, d, p, do, a) ==
    [Day |-> Append(h.Day, d), Pollution |-> Append(h.Pollution, p),
     Oxygen |-> Append(h.Oxygen, do), Health |-> Append(h.Health, a)]

---------------------------------------------------------------------------
(* Campaign controller and report *)

\* Line 137 (and line 179).
TerminalDay == 30

\* Line 137 with > for >=.
GameOver_Late(d) == d > TerminalDay

GameOver(d) == d >= TerminalDay

\* Lines 187-202 with the pollution test of the first branch left out.
Grade_HealthOnly(avg_health, final_pollution) ==
    IF avg_health > F(90, 1) THEN "A+"
    ELSE IF avg_health > F(70, 1) THEN "B"
    ELSE IF avg_health > F(40, 1) THEN "C"
    ELSE "F"

\* Lines 187-202.
Grade(avg_health, final_pollution) ==
    IF avg_health > F(90, 1) /\ final_pollution < F(5, 1) THEN "A+"
    ELSE IF avg_health > F(70, 1) THEN "B"
    ELSE IF avg_health > F(40, 1) THEN "C"
    ELSE "F"

\* Lines 152-174 and 179-202: what a script run shows of the report.  The
\* welcome page stops the script before the dashboard.
Report(st, d, h, p) ==
    IF st /\ GameOver(d) THEN Grade(Mean(h.Health), p) ELSE "none"

---------------------------------------------------------------------------
(* Commands *)

Init ==
    /\ day = 1
    /\ pollution_level = SeedPollution
    /\ dissolved_oxygen = SeedOxygen
    /\ aquatic_health = SeedHealth
    /\ history = SeedHistory
    /\ policies = NoPolicies
    /\ started = FALSE
    /\ factory_val = DefaultFactory
    /\ farm_val = DefaultFarm
    /\ health_impact = 0
    /\ report = "none"
    /\ changes = 0

\* Lines 123-132: the user moves sliders and ticks checkboxes; the script
\* runs with no button pressed and stores the checkbox values.
Adjust(f, g, pol) ==
    /\ changes < MaxChanges
    /\ <<f, g, pol>> # <<factory_val, farm_val, policies>>
    /\ factory_val' = f
    /\ farm_val' = g
    /\ policies' = pol
    /\ changes' = changes + 1
    /\ report' = Report(started, day, history, pollution_level)
    /\ UNCHANGED <<sim, started, health_impact>>

\* Lines 137-142: "Next Day", rendered only while the game is not over.
NextDay ==
    /\ ~GameOver(day)
    /\ LET p == NewPollution(pollution_level, factory_val, farm_val, policies)
           do == NewOxygen(dissolved_oxygen, p)
           impact == HealthImpact(do, p, policies)
           a == NewHealth(aquatic_health, impact)
       IN  /\ pollution_level' = p
           /\ dissolved_oxygen' = do
           /\ health_impact' = impact
           /\ aquatic_health' = a
           /\ day' = day + 1
           /\ history' = AppendHistory(history, day + 1, p, do, a)
           /\ report' = Report(started, day + 1, history', p)
    /\ UNCHANGED <<policies, started, factory_val, farm_val, changes>>

\* Lines 146-149 deleting the simulation keys only: the policies survive.
Reset_KeepPolicies ==
    /\ day' = 1
    /\ pollution_level' = SeedPollution
    /\ dissolved_oxygen' = SeedOxygen
    /\ aquatic_health' = SeedHealth
    /\ history' = SeedHistory
    /\ started' = FALSE
    /\ health_impact' = 0
    /\ report' = "none"
    /\ UNCHANGED <<policies, factory_val, farm_val, changes>>

\* Lines 146-149, then the initialization of lines 45-61 in the rerun.  The
\* sliders have no key in the session state and keep their positions.
Reset ==
    /\ day' = 1
    /\ pollution_level' = SeedPollution
    /\ dissolved_oxygen' = SeedOxygen
    /\ aquatic_health' = SeedHealth
    /\ history' = SeedHistory
    /\ policies' = NoPolicies
    /\ started' = FALSE
    /\ health_impact' = 0
    /\ report' = "none"
    /\ UNCHANGED <<factory_val, farm_val, changes>>

\* Lines 171-173: "Start Simulation" on the welcome page.
Start ==
    /\ ~started
    /\ started' = TRUE
    /\ report' = Report(TRUE, day, history, pollution_level)
    /\ UNCHANGED <<sim, policies, factory_val, farm_val, health_impact, changes>>

Next ==
    \/ \E c \in Settings : Adjust(c.factory, c.farm, c.pol)
    \/ NextDay
    \/ Reset
    \/ Start

Spec == Init /\ [][Next]_vars

---------------------------------------------------------------------------
(* Campaigns under every widget setting *)

\* The session after the widgets were set, before the first advance: any
\* slider positions and any checkboxes, the simulation state at its seed.
InitSet ==
    /\ day = 1
    /\ pollution_level = SeedPollution
    /\ dissolved_oxygen = SeedOxygen
    /\ aquatic_health = SeedHealth
    /\ history = SeedHistory
    /\ policies \in PolicySets
    /\ started = FALSE
    /\ factory_val \in SliderVals
    /\ farm_val \in SliderVals
    /\ health_impact = 0
    /\ report = "none"
    /\ changes = 0

\* The buttons alone: the widgets stay as set.
NextSet ==
    \/ NextDay
    \/ Reset
    \/ Start

SpecSet == InitSet /\ [][NextSet]_vars

---------------------------------------------------------------------------
(* Properties *)

Columns(h) == <<h.Day, h.Pollution, h.Oxygen, h.Health>>

\* C1: once day >= 30 the advance command is not accepted: "Next Day" is
\* not enabled, every step from such a state leaves day, pollutionLevel,
\* dissolvedOxygen, aquaticHealth and history unchanged unless it is the
\* reset, and so day stays between 1 and 30 in every reachable state.
C1_AdvanceRejectedAtTerminalDay ==
    /\ [](day \in 1..30)
    /\ [](day >= 30 => ~ENABLED NextDay)
    /\ [][day >= 30 => (UNCHANGED sim \/ Reset)]_vars

C1_Witness ==
    /\ day = 30
    /\ Len(history.Day) = 30
    /\ \E pol \in PolicySets : pol # NoPolicies /\ policies = pol

\* C2: each of the four history columns has length day in every reachable
\* state, and every accepted advance increases day by exactly 1 and appends
\* exactly one entry to each column.
C2_HistoryLengthIsDay ==
    /\ [](\A i \in 1..4 : Len(Columns(history)[i]) = day)
    /\ [][NextDay =>
            /\ day' = day + 1
            /\ \A i \in 1..4 :
                 /\ Len(Columns(history')[i]) = Len(Columns(history)[i]) + 1
                 /\ SubSeq(Columns(history')[i], 1, day) = Columns(history)[i]]_vars

C2_Witness ==
    /\ day = 30
    /\ history.Day[30] = 30
    /\ history.Pollution[30] = pollution_level
    /\ history.Oxygen[30] = dissolved_oxygen
    /\ history.Health[30] = aquatic_health

\* C3: aquaticHealth is within [0, 100] in every reachable state, and so
\* is every value recorded in the Health column of the history.
C3_HealthInRange ==
    /\ aquatic_health >= 0
    /\ aquatic_health <= 100 * Unit
    /\ \A i \in 1..Len(history.Health) :
         history.Health[i] >= 0 /\ history.Health[i] <= 100 * Unit

\* A campaign in which the clip acted at both ends: a recovery step at
\* health 100 and a penalty step beyond health 0.
C3_Witness ==
    /\ aquatic_health = 0
    /\ health_impact < 0
    /\ day > 2
    /\ history.Health[day - 1] + health_impact < 0
    /\ history.Health[2] = 100 * Unit
    /\ history.Oxygen[2] > 6 * Unit
    /\ history.Pollution[2] < 20 * Unit

\* C4: pollutionLevel >= 0 in every reachable state, CleanupDrive included.
C4_PollutionNonNegative ==
    /\ pollution_level >= 0
    /\ \A i \in 1..Len(history.Pollution) : history.Pollution[i] >= 0

\* The last step ran with CleanupDrive and its recovery exceeded what was left.
C4_Witness ==
    /\ day > 1
    /\ policies.CleanupDrive
    /\ pollution_level = 0
    /\ history.Pollution[day - 1] > 0
    /\ history.Pollution[day - 1] < 5 * Unit
    /\ history.Pollution[day - 1] + NetPollution(factory_val, farm_val, policies) < 0

\* C5: from any reachable state, the terminal day included, reset yields
\* exactly day = 1, pollutionLevel = 10.0, dissolvedOxygen = 8.0,
\* aquaticHealth = 100.0, the one history entry (1, 10.0, 8.0, 100.0) and
\* all three policies false; a reset of the state a reset yields changes
\* nothing, and advance is accepted in it.
C5_SeedState ==
    /\ day = 1
    /\ pollution_level = 10 * Unit
    /\ dissolved_oxygen = 8 * Unit
    /\ aquatic_health = 100 * Unit
    /\ history = [Day |-> <<1>>, Pollution |-> <<10 * Unit>>,
                  Oxygen |-> <<8 * Unit>>, Health |-> <<100 * Unit>>]
    /\ ~policies.TreatmentPlant
    /\ ~policies.Regulation
    /\ ~policies.CleanupDrive

C5_ResetRestoresSeed ==
    /\ [](ENABLED Reset)
    /\ [][Reset => C5_SeedState']_vars
    /\ []((C5_SeedState /\ ~started) => ~ENABLED (Reset /\ vars' # vars))
    /\ [](C5_SeedState => ENABLED NextDay)

\* The seed state after a reset: no setting has the sliders at 0 and 10
\* with every policy off, so the policies were on and the reset cleared them.
C5_Witness ==
    /\ C5_SeedState
    /\ changes = 1
    /\ factory_val = 0
    /\ farm_val = 10

\* The pollution a day adds, as the claim states it: 1.5 per factory unit and
\* 1.0 per farm unit, times 0.3 with TreatmentPlant, times 0.6 with
\* Regulation, times 0.18 with both.
C6_Daily(f, g, pol) ==
    LET d == f * ((15 * Unit) \div 10) + g * Unit
    IN  IF pol.TreatmentPlant /\ pol.Regulation THEN (d * 18) \div 100
        ELSE IF pol.TreatmentPlant THEN (d * 3) \div 10
        ELSE IF pol.Regulation THEN (d * 6) \div 10
        ELSE d

\* C6: every accepted advance sets pollutionLevel to max(0, old + d - r),
\* d as above and r = 5.0 with CleanupDrive, else 2.0, with the slider
\* values and flags in effect at the advance.  From the seed, advance(5, 3)
\* with no policy gives 18.5, and advance(10, 10) with TreatmentPlant and
\* Regulation then gives 21.0.
C6_PollutionUpdate ==
    [][NextDay =>
        LET d == C6_Daily(factory_val, farm_val, policies)
            r == IF policies.CleanupDrive THEN 5 * Unit ELSE 2 * Unit
            new == pollution_level + d - r
        IN  /\ pollution_level' = IF new < 0 THEN 0 ELSE new
            /\ (day = 1 /\ factory_val = 5 /\ farm_val = 3
                   /\ policies = NoPolicies)
                 => pollution_level' = (185 * Unit) \div 10
            /\ (pollution_level = (185 * Unit) \div 10
                   /\ factory_val = 10 /\ farm_val = 10
                   /\ policies = [TreatmentPlant |-> TRUE, Regulation |-> TRUE,
                                  CleanupDrive |-> FALSE])
                 => pollution_level' = 21 * Unit]_vars

\* Scenario 1 then scenario 2.
C6_Witness ==
    /\ day = 3
    /\ history.Pollution = <<10 * Unit, (185 * Unit) \div 10, 21 * Unit>>
    /\ policies.TreatmentPlant
    /\ policies.Regulation
    /\ ~policies.CleanupDrive

\* C7: a report is shown only in states with day >= 30; its grade is A+
\* exactly when avgHealth > 90 and finalPollution < 5, otherwise B exactly
\* when avgHealth > 70, otherwise C exactly when avgHealth > 40, otherwise
\* F, with avgHealth the mean of all history.Health entries and
\* finalPollution = pollutionLevel; a script run that shows the report
\* without advancing leaves the simulation state unchanged.
C7_ReportGrade ==
    /\ [](report # "none" =>
            LET avg == Mean(history.Health)
                top == avg > 90 * Unit /\ pollution_level < 5 * Unit
            IN  /\ day >= 30
                /\ Len(history.Health) = 30
                /\ report \in {"A+", "B", "C", "F"}
                /\ report = "A+" <=> top
                /\ report = "B" <=> (~top /\ avg > 70 * Unit)
                /\ report = "C" <=> (~top /\ avg <= 70 * Unit /\ avg > 40 * Unit)
                /\ report = "F" <=> avg <= 40 * Unit)
    /\ []((started /\ day >= 30) => report # "none")
    /\ [][(report' # "none" /\ ~NextDay) => UNCHANGED sim]_vars

\* A campaign whose average health is above 90 and which is denied the A+
\* by its final pollution.
C7_Witness ==
    /\ report = "B"
    /\ Mean(history.Health) > 90 * Unit
    /\ pollution_level >= 5 * Unit

\* The campaign driven by advance(10, 10) with no policy on every day: the
\* one whose pollution rises by 1.5 * 10 + 10 - 2.0 = 23.0 a day, the largest
\* rise a day can bring.
WorstCase ==
    \A i \in 1..Len(history.Pollution) :
        history.Pollution[i] = (10 + 23 * (i - 1)) * Unit

\* C8: in that campaign aquaticHealth never increases from one day to the
\* next; it is strictly lower after every step whose new pollutionLevel is
\* above 20 and new dissolvedOxygen below 6.0, unless it was 0 already; it
\* reaches 0 before day 30 and stays 0; and dissolvedOxygen decreases every
\* day and stays above the floor 0.5 of its target.
C8_WorstCaseDecline ==
    WorstCase =>
        /\ \A i \in 2..day :
             /\ history.Health[i] <= history.Health[i - 1]
             /\ (history.Pollution[i] > 20 * Unit /\ history.Oxygen[i] < 6 * Unit)
                   => (history.Health[i] < history.Health[i - 1]
                         \/ history.Health[i - 1] = 0)
             /\ history.Health[i - 1] = 0 => history.Health[i] = 0
             /\ history.Oxygen[i] < history.Oxygen[i - 1]
             /\ history.Oxygen[i] > Unit \div 2
        /\ day = 30 => \E j \in 2..29 : history.Health[j] = 0

C8_Witness ==
    /\ WorstCase
    /\ day = 30
    /\ factory_val = 10
    /\ farm_val = 10
    /\ policies = NoPolicies
    /\ aquatic_health = 0
    /\ history.Health[4] > 0

\* C9 (as amended): the smoothing step never produces a dissolvedOxygen
\* below 0.5: dissolvedOxygen and every recorded Oxygen value are at least
\* 0.5 in every reachable state.
C9_OxygenNeverBelowFloor ==
    /\ dissolved_oxygen >= Unit \div 2
    /\ \A i \in 1..Len(history.Oxygen) : history.Oxygen[i] >= Unit \div 2

\* The target has been at its floor 0.5 for the last steps and the smoothed
\* value has come within a thousandth of it.
C9_Witness ==
    /\ day > 2
    /\ TargetDO(history.Pollution[day - 1]) = Unit \div 2
    /\ TargetDO(pollution_level) = Unit \div 2
    /\ dissolved_oxygen < history.Oxygen[day - 1]
    /\ dissolved_oxygen - Unit \div 2 < Unit \div 1000

\* C9 as stated: some sequence of at most 29 advance calls from the seed
\* ends with dissolvedOxygen < 0.5.  A higher pollution gives a lower target
\* and so a lower smoothed value at every step, so that if any sequence gets
\* below 0.5 the worst case does, by its last day.
C9_Original ==
    (WorstCase /\ day = 30) => \E i \in 1..30 : history.Oxygen[i] < Unit \div 2

\* C10: in an advance step the recovery term and a penalty term never both
\* apply: when the recovery is added (new dissolvedOxygen > 6.0 and new
\* pollutionLevel < 20) healthImpact is exactly +3.0, or +8.0 with
\* CleanupDrive; healthImpact is positive only then, so it is >= 3.0 or
\* <= 0; and it is exactly 0 when new dissolvedOxygen >= 6.0 and new
\* pollutionLevel <= 20 but not both strictly.
C10_PenaltyRecoveryDisjoint ==
    [][NextDay =>
        LET do == dissolved_oxygen'
            p == pollution_level'
            impact == health_impact'
            recovery == do > 6 * Unit /\ p < 20 * Unit
        IN  /\ recovery =>
                 impact = IF policies.CleanupDrive THEN 8 * Unit ELSE 3 * Unit
            /\ impact > 0 => recovery
            /\ impact >= 3 * Unit \/ impact <= 0
            /\ (do >= 6 * Unit /\ p <= 20 * Unit /\ ~recovery) => impact = 0]_vars

\* A campaign with a step at pollution exactly 20 (no term applied) and a
\* last step in which both penalties were subtracted.
C10_Witness ==
    /\ \E i \in 2..day :
         /\ history.Pollution[i] = 20 * Unit
         /\ history.Oxygen[i] >= 6 * Unit
         /\ history.Health[i] = history.Health[i - 1]
    /\ dissolved_oxygen < 6 * Unit
    /\ pollution_level > 20 * Unit
    /\ OxygenPenalty(dissolved_oxygen) > 0
    /\ ToxicityPenalty(pollution_level) > 0
    /\ health_impact = 0 - OxygenPenalty(dissolved_oxygen)
                         - ToxicityPenalty(pollution_level)

====
